---- MODULE Spec2Model ----
(***************************************************************************)
(* Model of eth_health_check.py (Enhanced Ethereum Node Health Checker).   *)
(*                                                                         *)
(* The program is one sequential run: probe the beacon node (TCP connects, *)
(* severity classification, four REST checks), probe the execution        *)
(* ("Sepolia") node (TCP connects, classification, JSON-RPC checks), print *)
(* a summary and exit.  The network is the environment: the outcome of     *)
(* every connect and of every HTTP attempt is chosen nondeterministically. *)
(*                                                                         *)
(* Latencies are whole milliseconds.  Python dicts are functions whose     *)
(* DOMAIN is the set of keys present; d.get(k, v) is Get(d, k, v).         *)
(* Printed lines are kept by their fixed text, without the numbers the     *)
(* program formats into them.                                              *)
(***************************************************************************)
EXTENDS Integers, Sequences, FiniteSets, TLC

VARIABLES
    args,             \* the parsed command line (argparse namespace)
    pc,               \* position of the run in main / run_health_check
    attempts,         \* connection_attempts of the node check in progress
    req,              \* locals of the make_request_with_retry call in progress
    blk,              \* locals of the recent-block loop (i, recent_blocks)
    beacon_results,   \* dict returned / being built by check_beacon_node_enhanced
    sepolia_results,  \* dict returned / being built by check_sepolia_rpc_enhanced
    log,              \* lines printed by log_result in this call of run_health_check
    summary,          \* what print_enhanced_summary printed and returned
    exit_code,        \* process exit status: <<>> while the process lives, then <<code>>
    wire,             \* history of this call: every connect, HTTP attempt and retry sleep
    faults,           \* number of connects and answers so far that were faults
    unit,             \* inputs and outputs of a function applied on its own
    iteration         \* monitor mode: calls of run_health_check that have returned

vars == <<args, pc, attempts, req, blk, beacon_results, sepolia_results,
          log, summary, exit_code, wire, faults, unit, iteration>>

(***************************************************************************)
(* Bounds of the model.                                                    *)
(***************************************************************************)
MaxRetries == 2       \* --retries ranges over 0..MaxRetries
MaxFaults == 2        \* connects and answers per run that depart from a healthy node's
MaxAttempts == 3      \* attempt records handed to the classifier on its own
MaxPeerCount == 60    \* peer counts handed to the peer classifiers on their own
MaxHexLen == 2        \* hex digits of the chain IDs handed to the chain ID step on its own
MaxIterations == 2    \* monitor mode: iterations of the loop after the first

(***************************************************************************)
(* Python helpers.                                                         *)
(***************************************************************************)
None == "None"

EmptyDict == [k \in {} |-> 0]

Put(d, k, v) == [x \in DOMAIN d \cup {k} |-> IF x = k THEN v ELSE d[x]]

Get(d, k, default) == IF k \in DOMAIN d THEN d[k] ELSE default

RECURSIVE Sum(_)
Sum(s) == IF s = <<>> THEN 0 ELSE Head(s) + Sum(Tail(s))

RECURSIVE Filter(_, _)
Filter(s, ok) ==
    IF s = <<>> THEN <<>>
    ELSE IF Head(s).success = ok THEN <<Head(s)>> \o Filter(Tail(s), ok)
         ELSE Filter(Tail(s), ok)

Latencies(s) == [i \in 1..Len(s) |-> s[i].latency]

\* statistics.mean(xs) > num/den, for a non-empty xs of whole numbers
MeanAbove(xs, num, den) == Sum(xs) * den > num * Len(xs)

(***************************************************************************)
(* JSON values as the program reads them.  A string of hex text is kept as *)
(* the digit values after its "0x" prefix; int(v, 16) is ParseHex: a       *)
(* string with no digits is a ValueError, a non-string a TypeError.        *)
(***************************************************************************)
HexDigits == 0..15

JStr(ds) == [type |-> "str", digits |-> ds]
JNull == [type |-> "null"]
JBool(b) == [type |-> "bool", value |-> b]
JDict(d) == [type |-> "dict", items |-> d]
JList(n) == [type |-> "list", items |-> [i \in 1..n |-> "peer"]]
JNum(n) == [type |-> "num", value |-> n]
NotJson == [type |-> "notjson"]

RECURSIVE HexValue(_)
HexValue(ds) ==
    IF ds = <<>> THEN 0
    ELSE HexValue(SubSeq(ds, 1, Len(ds) - 1)) * 16 + ds[Len(ds)]

\* int(v, 16): [ok |-> TRUE, value |-> n], or ok = FALSE when int() raises
ParseHex(v) ==
    IF v.type = "str" /\ v.digits # <<>>
    THEN [ok |-> TRUE, value |-> HexValue(v.digits)]
    ELSE [ok |-> FALSE, value |-> 0]

(***************************************************************************)
(* diagnose_connection_issues: the severity classifier.                    *)
(* The result is [raised, status, details]; raised = TRUE is the           *)
(* StatisticsError of statistics.mean([]) leaving the function.            *)
(***************************************************************************)
TimeoutLines == <<"Connection timeout - service likely not running or severely overloaded",
                  "Average timeout", "Check: sudo systemctl status",
                  "Check: netstat -tlnp">>
OverloadLines == <<"Severe network latency or system overload",
                   "Average response time", "Check: System resources",
                   "Check: Network connectivity and firewall rules">>
RefusedLines == <<"Port closed or service not responding",
                  "Connection refused after", "Check: sudo ufw status",
                  "Check: Service configuration and binding address">>
IntermittentLines == <<"Intermittent connectivity", "Average latency",
                       "Check: Network stability and system load",
                       "Consider: Increasing timeout values">>
HighLatencyLines == <<"High latency detected", "Average response time",
                      "Check: System performance and network conditions",
                      "Consider: Hardware upgrade if consistently slow">>
StableLines == <<"Connection stable">>

Verdict(status, details) == [raised |-> FALSE, status |-> status, details |-> details]
Raised == [raised |-> TRUE, status |-> None, details |-> <<>>]

\* Variants of the classifier with one slip each: the two partitions exchanged,
\* the timeout comparison made inclusive, the latency comparison made inclusive.
diagnose_partitions_exchanged(timeout, connection_attempts) ==
    LET successful_attempts == Filter(connection_attempts, FALSE)
        failed_attempts == Filter(connection_attempts, TRUE)
    IN  IF successful_attempts = <<>>
        THEN IF failed_attempts = <<>>
             THEN Raised
             ELSE IF MeanAbove(Latencies(failed_attempts), timeout * 1000 * 9, 10)
                  THEN Verdict("critical", TimeoutLines)
                  ELSE IF MeanAbove(Latencies(failed_attempts), 5000, 1)
                       THEN Verdict("critical", OverloadLines)
                       ELSE Verdict("error", RefusedLines)
        ELSE IF Len(successful_attempts) * 100 < 100 * Len(connection_attempts)
             THEN Verdict("warning", IntermittentLines)
             ELSE IF MeanAbove(Latencies(successful_attempts), 1000, 1)
                  THEN Verdict("warning", HighLatencyLines)
                  ELSE Verdict("success", StableLines)

diagnose_timeout_inclusive(timeout, connection_attempts) ==
    LET successful_attempts == Filter(connection_attempts, TRUE)
        failed_attempts == Filter(connection_attempts, FALSE)
    IN  IF successful_attempts = <<>>
        THEN IF failed_attempts = <<>>
             THEN Raised
             ELSE IF ~MeanAbove(Latencies(failed_attempts), timeout * 1000 * 9, 10)
                     /\ Sum(Latencies(failed_attempts)) * 10
                            # timeout * 1000 * 9 * Len(failed_attempts)
                  THEN IF MeanAbove(Latencies(failed_attempts), 5000, 1)
                       THEN Verdict("critical", OverloadLines)
                       ELSE Verdict("error", RefusedLines)
                  ELSE Verdict("critical", TimeoutLines)
        ELSE IF Len(successful_attempts) * 100 < 100 * Len(connection_attempts)
             THEN Verdict("warning", IntermittentLines)
             ELSE IF MeanAbove(Latencies(successful_attempts), 1000, 1)
                  THEN Verdict("warning", HighLatencyLines)
                  ELSE Verdict("success", StableLines)

diagnose_latency_inclusive(timeout, connection_attempts) ==
    LET successful_attempts == Filter(connection_attempts, TRUE)
        failed_attempts == Filter(connection_attempts, FALSE)
    IN  IF successful_attempts = <<>>
        THEN IF failed_attempts = <<>>
             THEN Raised
             ELSE IF MeanAbove(Latencies(failed_attempts), timeout * 1000 * 9, 10)
                  THEN Verdict("critical", TimeoutLines)
                  ELSE IF MeanAbove(Latencies(failed_attempts), 5000, 1)
                       THEN Verdict("critical", OverloadLines)
                       ELSE Verdict("error", RefusedLines)
        ELSE IF Len(successful_attempts) * 100 < 100 * Len(connection_attempts)
             THEN Verdict("warning", IntermittentLines)
             ELSE IF MeanAbove(Latencies(successful_attempts), 999, 1)
                  THEN Verdict("warning", HighLatencyLines)
                  ELSE Verdict("success", StableLines)

diagnose_connection_issues(timeout, connection_attempts) ==
    LET successful_attempts == Filter(connection_attempts, TRUE)
        failed_attempts == Filter(connection_attempts, FALSE)
    IN  IF successful_attempts = <<>>
        THEN IF failed_attempts = <<>>
             THEN Raised
             ELSE IF MeanAbove(Latencies(failed_attempts), timeout * 1000 * 9, 10)
                  THEN Verdict("critical", TimeoutLines)
                  ELSE IF MeanAbove(Latencies(failed_attempts), 5000, 1)
                       THEN Verdict("critical", OverloadLines)
                       ELSE Verdict("error", RefusedLines)
        ELSE IF Len(successful_attempts) * 100 < 100 * Len(connection_attempts)
             THEN Verdict("warning", IntermittentLines)
             ELSE IF MeanAbove(Latencies(successful_attempts), 1000, 1)
                  THEN Verdict("warning", HighLatencyLines)
                  ELSE Verdict("success", StableLines)

(***************************************************************************)
(* Peer-count tiers of the two node checks: the log line's tier name and   *)
(* status, and the issue appended to the node's issues (None: no issue).   *)
(***************************************************************************)
LowPeers == "Low peer count may affect sync performance"
VeryLowPeers == "Very low peer count - check network connectivity"

Tier(name, status, issue) == [tier |-> name, status |-> status, issue |-> issue]

\* Variant with the second comparison turned round.
PeerTiers_comparison_reversed(peer_count, excellent) ==
    IF peer_count >= excellent THEN Tier("Excellent", "success", None)
    ELSE IF peer_count <= 10 THEN Tier("Good", "success", None)
    ELSE IF peer_count >= 3 THEN Tier("Minimal", "warning", LowPeers)
    ELSE Tier("Poor", "error", VeryLowPeers)

PeerTiers(peer_count, excellent) ==
    IF peer_count >= excellent THEN Tier("Excellent", "success", None)
    ELSE IF peer_count >= 10 THEN Tier("Good", "success", None)
    ELSE IF peer_count >= 3 THEN Tier("Minimal", "warning", LowPeers)
    ELSE Tier("Poor", "error", VeryLowPeers)

BeaconPeerTier(peer_count) == PeerTiers(peer_count, 50)

SepoliaPeerTier(peer_count) == PeerTiers(peer_count, 25)

(***************************************************************************)
(* State of a run that has not started: what every variable of the run is  *)
(* while a function is applied on its own.                                 *)
(***************************************************************************)
NoRequest == [active |-> FALSE]
NoBlocks == [i |-> 0, recent_blocks |-> <<>>]
NoSummary == EmptyDict
NoUnit == [fn |-> None]

Idle ==
    /\ args = [beacon |-> "", sepolia |-> "", timeout |-> 15, retries |-> 3, monitor |-> 0]
    /\ pc = "unit"
    /\ attempts = <<>>
    /\ req = NoRequest
    /\ blk = NoBlocks
    /\ beacon_results = EmptyDict
    /\ sepolia_results = EmptyDict
    /\ log = {}
    /\ summary = NoSummary
    /\ exit_code = <<>>
    /\ wire = <<>>
    /\ faults = 0
    /\ iteration = 0

runVars == <<args, pc, attempts, req, blk, beacon_results, sepolia_results,
             log, summary, exit_code, wire, faults, iteration>>

SeqsUpTo(S, n) == UNION {[1..k -> S] : k \in 0..n}

(***************************************************************************)
(* The classifier on its own: every attempt sequence of up to MaxAttempts  *)
(* records, under every timeout of UnitTimeouts.                           *)
(***************************************************************************)
UnitTimeouts == {5, 15}
UnitLatencies == {100, 1000, 1100, 4500, 5000, 6000, 13500}

AttemptRecord(ok, latency, n, error) ==
    [success |-> ok, latency |-> latency, attempt |-> n, error |-> error]

UnitAttempts ==
    {[i \in 1..Len(s) |-> AttemptRecord(s[i][1], s[i][2], i, None)] :
        s \in SeqsUpTo(BOOLEAN \X UnitLatencies, MaxAttempts)}

InitClassify ==
    /\ Idle
    /\ unit \in {[fn |-> "classify", timeout |-> t, attempts |-> a, applied |-> FALSE, out |-> None] :
                    t \in UnitTimeouts, a \in UnitAttempts}

Classify ==
    /\ unit.fn = "classify"
    /\ ~unit.applied
    /\ unit' = [unit EXCEPT !.applied = TRUE, !.out = diagnose_connection_issues(unit.timeout, unit.attempts)]
    /\ UNCHANGED runVars

SpecClassify == InitClassify /\ [][Classify]_vars

(***************************************************************************)
(* The two peer-count classifiers on their own, on a pair of peer counts.  *)
(***************************************************************************)
InitPeers ==
    /\ Idle
    /\ unit \in {[fn |-> "peers", p |-> p, q |-> q, applied |-> FALSE, out |-> None] :
                    p \in 0..MaxPeerCount, q \in 0..MaxPeerCount}

ClassifyPeers ==
    /\ unit.fn = "peers"
    /\ ~unit.applied
    /\ unit' = [unit EXCEPT !.applied = TRUE, !.out = [beacon_p |-> BeaconPeerTier(unit.p),
                                     beacon_q |-> BeaconPeerTier(unit.q),
                                     sepolia_p |-> SepoliaPeerTier(unit.p),
                                     sepolia_q |-> SepoliaPeerTier(unit.q)]]
    /\ UNCHANGED runVars

SpecPeers == InitPeers /\ [][ClassifyPeers]_vars

(***************************************************************************)
(*                                 The run                                 *)
(*                                                                         *)
(* main() parses the command line and calls run_health_check once, or in   *)
(* a loop in monitor mode.  The check of the local system resources        *)
(* (check_system_resources) touches nothing the node checks read and       *)
(* catches its own exceptions; it is left out.                             *)
(***************************************************************************)
BeaconUrl == "http://localhost:5052"
SepoliaUrl == "http://localhost:8545"
BadUrl == "http://localhost:port"      \* the port is not a number: int() raises

\* parse_url: the host, or None when the URL cannot be parsed
parse_url(url) == IF url = BadUrl THEN None ELSE "localhost"

RunTimeouts == {15}
ConnectLatencies == {100, 6000, 14000}
ConnectOutcomes == {"connected", "refused", "raised"}

Log(message, status) == <<message, status>>

InitRun ==
    /\ args \in {[beacon |-> b, sepolia |-> s, timeout |-> t, retries |-> r, monitor |-> 0] :
                    b \in {"", BadUrl, BeaconUrl}, s \in {"", BadUrl, SepoliaUrl},
                    t \in RunTimeouts, r \in 0..MaxRetries}
    /\ pc = "beacon"
    /\ attempts = <<>>
    /\ req = NoRequest
    /\ blk = NoBlocks
    /\ beacon_results = EmptyDict
    /\ sepolia_results = EmptyDict
    /\ log = {}
    /\ summary = NoSummary
    /\ exit_code = <<>>
    /\ wire = <<>>
    /\ faults = 0
    /\ unit = NoUnit
    /\ iteration = 0

(***************************************************************************)
(* test_connection_advanced: one iteration of its loop per step.           *)
(***************************************************************************)
\* an entry of the history
Event(op, node, answer, body) == [op |-> op, node |-> node, answer |-> answer, body |-> body]

\* A connect is a fault when it is not a prompt success.
ConnectFault(outcome, latency) == outcome # "connected" \/ latency > 1000

\* Variant that keeps no record of a connect that raised.
ConnectStep_drops_raised(node, outcome, latency) ==
    /\ Len(attempts) < args.retries
    /\ ConnectFault(outcome, latency) => faults < MaxFaults
    /\ faults' = IF ConnectFault(outcome, latency) THEN faults + 1 ELSE faults
    /\ attempts' = IF outcome = "raised" THEN attempts
                   ELSE Append(attempts,
                               AttemptRecord(outcome = "connected", latency, Len(attempts) + 1, None))
    /\ wire' = Append(wire, Event("connect", node, outcome, NotJson))

ConnectStep(node, outcome, latency) ==
    /\ Len(attempts) < args.retries
    /\ ConnectFault(outcome, latency) => faults < MaxFaults
    /\ faults' = IF ConnectFault(outcome, latency) THEN faults + 1 ELSE faults
    /\ attempts' = Append(attempts,
                     AttemptRecord(outcome = "connected", latency, Len(attempts) + 1,
                                   IF outcome = "raised" THEN "str(e)" ELSE None))
    /\ wire' = Append(wire, Event("connect", node, outcome, NotJson))

ConnectionLoopDone == Len(attempts) >= args.retries

\* Variant that asks every connect to have succeeded.
AnySuccess_every(connection_attempts) ==
    \A i \in 1..Len(connection_attempts) : connection_attempts[i].success

AnySuccess(connection_attempts) ==
    \E i \in 1..Len(connection_attempts) : connection_attempts[i].success

(***************************************************************************)
(* make_request_with_retry: one iteration of its loop per step.  The call  *)
(* has returned when an attempt got a 200 or the loop ran out.             *)
(***************************************************************************)
NoneResponse == [status_code |-> 0, body |-> NotJson]
Response200(body) == [status_code |-> 200, body |-> body]

NewRequest == [active |-> TRUE, attempt |-> 0, errors |-> <<>>, response |-> NoneResponse]

HttpOutcomes == {"200", "HTTP 503", "exception"}

RequestReturned == req.active /\ (req.response.status_code = 200 \/ req.attempt >= args.retries)

\* the perf_data the call returns
PerfData == [attempts |-> IF req.response.status_code = 200 THEN req.attempt ELSE args.retries,
             errors |-> req.errors]

\* the request line of the check at each position
\* Variant that asks for the peers where the code asks for the sync status, and back.
Endpoint_peers_before_sync(at) ==
    CASE at = "b_health" -> "GET /eth/v1/node/health"
      [] at = "b_sync" -> "GET /eth/v1/node/peers"
      [] at = "b_peers" -> "GET /eth/v1/node/syncing"
      [] at = "b_version" -> "GET /eth/v1/node/version"
      [] at = "s_chain" -> "POST eth_chainId"
      [] at = "s_blocknum" -> "POST eth_blockNumber"
      [] at = "s_block" -> "POST eth_getBlockByNumber"
      [] at = "s_sync" -> "POST eth_syncing"
      [] at = "s_peers" -> "POST net_peerCount"

Endpoint(at) ==
    CASE at = "b_health" -> "GET /eth/v1/node/health"
      [] at = "b_sync" -> "GET /eth/v1/node/syncing"
      [] at = "b_peers" -> "GET /eth/v1/node/peers"
      [] at = "b_version" -> "GET /eth/v1/node/version"
      [] at = "s_chain" -> "POST eth_chainId"
      [] at = "s_blocknum" -> "POST eth_blockNumber"
      [] at = "s_block" -> "POST eth_getBlockByNumber"
      [] at = "s_sync" -> "POST eth_syncing"
      [] at = "s_peers" -> "POST net_peerCount"

NodeOf(at) == IF at \in {"b_connect", "b_health", "b_sync", "b_peers", "b_version"}
              THEN "beacon" ELSE "sepolia"

RequestPositions == {"b_health", "b_sync", "b_peers", "b_version", "s_chain",
                     "s_blocknum", "s_block", "s_sync", "s_peers"}

\* An answer is a fault when it is not what a healthy, synced Sepolia/beacon
\* pair gives: a failed attempt, or a 200 whose body is not the usual one.
Fault(outcome, body, usual) == outcome # "200" \/ body # usual

\* Variant whose loop runs once too often.
RequestStep_one_more(outcome, body, usual) ==
    /\ req.active
    /\ req.response.status_code # 200
    /\ req.attempt <= args.retries
    /\ Fault(outcome, body, usual) => faults < MaxFaults
    /\ faults' = IF Fault(outcome, body, usual) THEN faults + 1 ELSE faults
    /\ req' = [req EXCEPT !.attempt = @ + 1,
                          !.errors = IF outcome = "200" THEN @ ELSE Append(@, outcome),
                          !.response = IF outcome = "200" THEN Response200(body) ELSE @]
    /\ wire' = wire \o <<Event(Endpoint(pc), NodeOf(pc), outcome, body)>>
                    \o (IF outcome = "exception" /\ req.attempt < args.retries - 1
                        THEN <<Event("sleep 500ms", NodeOf(pc), None, NotJson)>> ELSE <<>>)

\* Variant whose loop goes on after a 200.
RequestStep_goes_on(outcome, body, usual) ==
    /\ req.active
    /\ req.attempt < args.retries
    /\ Fault(outcome, body, usual) => faults < MaxFaults
    /\ faults' = IF Fault(outcome, body, usual) THEN faults + 1 ELSE faults
    /\ req' = [req EXCEPT !.attempt = @ + 1,
                          !.errors = IF outcome = "200" THEN @ ELSE Append(@, outcome),
                          !.response = IF outcome = "200" THEN Response200(body) ELSE @]
    /\ wire' = wire \o <<Event(Endpoint(pc), NodeOf(pc), outcome, body)>>
                    \o (IF outcome = "exception" /\ req.attempt < args.retries - 1
                        THEN <<Event("sleep 500ms", NodeOf(pc), None, NotJson)>> ELSE <<>>)

RequestStep(outcome, body, usual) ==
    /\ req.active
    /\ req.response.status_code # 200
    /\ req.attempt < args.retries
    /\ Fault(outcome, body, usual) => faults < MaxFaults
    /\ faults' = IF Fault(outcome, body, usual) THEN faults + 1 ELSE faults
    /\ req' = [req EXCEPT !.attempt = @ + 1,
                          !.errors = IF outcome = "200" THEN @ ELSE Append(@, outcome),
                          !.response = IF outcome = "200" THEN Response200(body) ELSE @]
    /\ wire' = wire \o <<Event(Endpoint(pc), NodeOf(pc), outcome, body)>>
                    \o (IF outcome = "exception" /\ req.attempt < args.retries - 1
                        THEN <<Event("sleep 500ms", NodeOf(pc), None, NotJson)>> ELSE <<>>)

(***************************************************************************)
(* Reading a response body.  Each reader gives what the check's try block  *)
(* computes, with raised = TRUE when an exception reaches its except.      *)
(***************************************************************************)
JText(t) == [type |-> "text", value |-> t]

Truthy(v) ==
    CASE v.type = "bool" -> v.value
      [] v.type = "null" -> FALSE
      [] v.type = "num" -> v.value # 0
      [] v.type = "dict" -> v.items # EmptyDict
      [] v.type = "list" -> v.items # <<>>
      [] OTHER -> TRUE

SetPerf(results, check, perf_data) ==
    [results EXCEPT !["performance"] = Put(@, check, perf_data)]

AddIssues(results, lines) == [results EXCEPT !["issues"] = @ \o lines]

\* sync_data.get("data", {}).get("is_syncing", True), then sync_distance > 100
ReadBeaconSync(body) ==
    IF body.type # "dict" THEN [raised |-> TRUE]
    ELSE LET data == Get(body.items, "data", JDict(EmptyDict))
         IN  IF data.type # "dict" THEN [raised |-> TRUE]
             ELSE LET is_syncing == Get(data.items, "is_syncing", JBool(TRUE))
                      sync_distance == Get(data.items, "sync_distance", JNum(0))
                  IN  IF ~Truthy(is_syncing)
                      THEN [raised |-> FALSE, synced |-> TRUE, behind |-> FALSE]
                      ELSE IF sync_distance.type # "num" THEN [raised |-> TRUE]
                           ELSE [raised |-> FALSE, synced |-> FALSE,
                                 behind |-> sync_distance.value > 100]

\* len(peers_data.get("data", []))
ReadBeaconPeers(body) ==
    IF body.type # "dict" THEN [raised |-> TRUE]
    ELSE LET data == Get(body.items, "data", JList(0))
         IN  IF data.type \notin {"list", "dict"} THEN [raised |-> TRUE]
             ELSE [raised |-> FALSE,
                   peer_count |-> IF data.type = "list" THEN Len(data.items)
                                  ELSE Cardinality(DOMAIN data.items)]

\* version_data.get("data", {}).get("version", "Unknown")
ReadBeaconVersion(body) ==
    IF body.type # "dict" THEN [raised |-> TRUE]
    ELSE LET data == Get(body.items, "data", JDict(EmptyDict))
         IN  IF data.type # "dict" THEN [raised |-> TRUE]
             ELSE [raised |-> FALSE,
                   version |-> Get(data.items, "version", JText("Unknown"))]

\* int(response.json().get("result", "0x0"), 16)
ReadHexResult(body) ==
    IF body.type # "dict" THEN [raised |-> TRUE]
    ELSE LET parsed == ParseHex(Get(body.items, "result", JStr(<<0>>)))
         IN  IF parsed.ok THEN [raised |-> FALSE, value |-> parsed.value]
             ELSE [raised |-> TRUE]

(***************************************************************************)
(* What the nodes may answer with a 200.                                   *)
(***************************************************************************)
Data(v) == JDict(Put(EmptyDict, "data", v))
Result(v) == JDict(Put(EmptyDict, "result", v))

NotSyncing == Data(JDict(Put(EmptyDict, "is_syncing", JBool(FALSE))))
PeerList25 == Data(JList(25))
VersionText == Data(JDict(Put(EmptyDict, "version", JText("Lighthouse/v5.1.3"))))

BeaconSyncBodies ==
    {NotSyncing,
     Data(JDict(Put(Put(EmptyDict, "is_syncing", JBool(TRUE)), "sync_distance", JNum(200)))),
     Data(JDict(Put(EmptyDict, "is_syncing", JNull))),
     JDict(EmptyDict),
     NotJson}

BeaconPeerBodies == {Data(JList(2)), PeerList25, NotJson}

BeaconVersionBodies == {VersionText, NotJson}

SepoliaChainIdHex == <<10, 10, 3, 6, 10, 7>>     \* "0xaa36a7"

ChainIdBodies == {Result(JStr(SepoliaChainIdHex)), Result(JStr(<<1>>)), Result(JStr(<<5>>)),
                  Result(JNull)}

(***************************************************************************)
(* check_beacon_node_enhanced                                              *)
(***************************************************************************)
NewBeaconResults ==
    [reachable |-> FALSE, healthy |-> FALSE, synced |-> FALSE, peers |-> 0,
     version |-> "Unknown", performance |-> EmptyDict, issues |-> <<>>]

InvalidBeaconResults ==
    [reachable |-> FALSE, healthy |-> FALSE, issues |-> <<"Invalid URL format">>]

\* run_health_check, "if args.beacon:" false
BeaconSkipped ==
    /\ pc = "beacon"
    /\ args.beacon = ""
    /\ pc' = "sepolia"
    /\ UNCHANGED <<args, attempts, req, blk, beacon_results, sepolia_results, log,
                   summary, exit_code, wire, faults, unit, iteration>>

\* entry of the check: parse_url, the initial dict
BeaconEnter ==
    /\ pc = "beacon"
    /\ args.beacon # ""
    /\ IF parse_url(args.beacon) = None
       THEN /\ beacon_results' = InvalidBeaconResults
            /\ log' = log \cup {Log("Invalid Beacon URL format", "error")}
            /\ pc' = "sepolia"
       ELSE /\ beacon_results' = NewBeaconResults
            /\ log' = log \cup {Log("Testing connection stability...", "info")}
            /\ pc' = "b_connect"
    /\ attempts' = <<>>
    /\ UNCHANGED <<args, req, blk, sepolia_results, summary, exit_code, wire, faults, unit, iteration>>

BeaconConnect ==
    /\ pc = "b_connect"
    /\ \E outcome \in ConnectOutcomes, latency \in ConnectLatencies :
          ConnectStep("beacon", outcome, latency)
    /\ UNCHANGED <<args, pc, req, blk, beacon_results, sepolia_results, log, summary,
                   exit_code, unit, iteration>>

\* Variant in which an unreachable beacon ends the probing.
BeaconDiagnose_stops_run ==
    /\ pc = "b_connect"
    /\ ConnectionLoopDone
    /\ LET verdict == diagnose_connection_issues(args.timeout, attempts)
       IN  IF verdict.raised
           THEN /\ pc' = "crashed"
                /\ exit_code' = <<1>>
                /\ UNCHANGED <<beacon_results, log, req>>
           ELSE /\ log' = log \cup {Log("Connection test complete", verdict.status)}
                /\ exit_code' = exit_code
                /\ IF ~AnySuccess(attempts)
                   THEN /\ beacon_results' = AddIssues(beacon_results, verdict.details)
                        /\ pc' = "summary"
                        /\ req' = req
                   ELSE /\ beacon_results' = [beacon_results EXCEPT !["reachable"] = TRUE]
                        /\ pc' = "b_health"
                        /\ req' = NewRequest
    /\ attempts' = <<>>
    /\ UNCHANGED <<args, blk, sepolia_results, summary, wire, faults, unit, iteration>>

\* diagnose_connection_issues, the log line, the early return
BeaconDiagnose ==
    /\ pc = "b_connect"
    /\ ConnectionLoopDone
    /\ LET verdict == diagnose_connection_issues(args.timeout, attempts)
       IN  IF verdict.raised
           THEN /\ pc' = "crashed"
                /\ exit_code' = <<1>>
                /\ UNCHANGED <<beacon_results, log, req>>
           ELSE /\ log' = log \cup {Log("Connection test complete", verdict.status)}
                /\ exit_code' = exit_code
                /\ IF ~AnySuccess(attempts)
                   THEN /\ beacon_results' = AddIssues(beacon_results, verdict.details)
                        /\ pc' = "sepolia"
                        /\ req' = req
                   ELSE /\ beacon_results' = [beacon_results EXCEPT !["reachable"] = TRUE]
                        /\ pc' = "b_health"
                        /\ req' = NewRequest
    /\ attempts' = <<>>
    /\ UNCHANGED <<args, blk, sepolia_results, summary, wire, faults, unit, iteration>>

BeaconBodies(at) ==
    CASE at = "b_health" -> {JDict(EmptyDict)}
      [] at = "b_sync" -> BeaconSyncBodies
      [] at = "b_peers" -> BeaconPeerBodies
      [] at = "b_version" -> BeaconVersionBodies

UsualBeaconBody(at) ==
    CASE at = "b_health" -> JDict(EmptyDict)
      [] at = "b_sync" -> NotSyncing
      [] at = "b_peers" -> PeerList25
      [] at = "b_version" -> VersionText

BeaconRequest ==
    /\ pc \in {"b_health", "b_sync", "b_peers", "b_version"}
    /\ \E outcome \in HttpOutcomes :
         \E body \in (IF outcome # "200" THEN {NotJson} ELSE BeaconBodies(pc)) :
            RequestStep(outcome, body, UsualBeaconBody(pc))
    /\ UNCHANGED <<args, pc, attempts, blk, beacon_results, sepolia_results, log,
                   summary, exit_code, unit, iteration>>

HealthFailedLines == <<"Health endpoint failed after", "Average latency", "Errors">>

\* Variant in which a failed health check ends the beacon check.
BeaconHealth_failure_returns ==
    /\ pc = "b_health"
    /\ RequestReturned
    /\ IF req.response.status_code = 200
       THEN /\ beacon_results' =
                  [SetPerf(beacon_results, "health_check", PerfData) EXCEPT !["healthy"] = TRUE]
            /\ log' = log \cup {Log("Beacon node is responding and healthy", "success"),
                                Log("Health check latency", "performance")}
            /\ pc' = "b_sync"
            /\ req' = NewRequest
       ELSE /\ beacon_results' =
                  AddIssues(SetPerf(beacon_results, "health_check", PerfData),
                            HealthFailedLines)
            /\ log' = log \cup {Log("Beacon node health check failed", "error")}
            /\ pc' = "sepolia"
            /\ req' = NoRequest
    /\ UNCHANGED <<args, attempts, blk, sepolia_results, summary, exit_code, wire,
                   faults, unit, iteration>>

BeaconHealth ==
    /\ pc = "b_health"
    /\ RequestReturned
    /\ IF req.response.status_code = 200
       THEN /\ beacon_results' =
                  [SetPerf(beacon_results, "health_check", PerfData) EXCEPT !["healthy"] = TRUE]
            /\ log' = log \cup {Log("Beacon node is responding and healthy", "success"),
                                Log("Health check latency", "performance")}
       ELSE /\ beacon_results' =
                  AddIssues(SetPerf(beacon_results, "health_check", PerfData),
                            HealthFailedLines)
            /\ log' = log \cup {Log("Beacon node health check failed", "error")}
    /\ pc' = "b_sync"
    /\ req' = NewRequest
    /\ UNCHANGED <<args, attempts, blk, sepolia_results, summary, exit_code, wire,
                   faults, unit, iteration>>

BeaconSync ==
    /\ pc = "b_sync"
    /\ RequestReturned
    /\ LET results == SetPerf(beacon_results, "sync_check", PerfData)
           read == ReadBeaconSync(req.response.body)
       IN  IF req.response.status_code # 200
           THEN beacon_results' = results /\ log' = log
           ELSE IF read.raised
           THEN /\ beacon_results' = results
                /\ log' = log \cup {Log("Error parsing sync data", "error")}
           ELSE IF read.synced
           THEN /\ beacon_results' = [results EXCEPT !["synced"] = TRUE]
                /\ log' = log \cup {Log("Beacon node is fully synced", "success")}
           ELSE IF read.behind
           THEN /\ beacon_results' = AddIssues(results, <<"Syncing behind by slots">>)
                /\ log' = log \cup {Log("Beacon node is significantly behind", "warning")}
           ELSE /\ beacon_results' = results
                /\ log' = log \cup {Log("Beacon node is catching up (near synced)", "info")}
    /\ pc' = "b_peers"
    /\ req' = NewRequest
    /\ UNCHANGED <<args, attempts, blk, sepolia_results, summary, exit_code, wire,
                   faults, unit, iteration>>

BeaconPeers ==
    /\ pc = "b_peers"
    /\ RequestReturned
    /\ LET results == SetPerf(beacon_results, "peer_check", PerfData)
           read == ReadBeaconPeers(req.response.body)
       IN  IF req.response.status_code # 200
           THEN beacon_results' = results /\ log' = log
           ELSE IF read.raised
           THEN /\ beacon_results' = results
                /\ log' = log \cup {Log("Error parsing peer data", "error")}
           ELSE LET tier == BeaconPeerTier(read.peer_count)
                    counted == [results EXCEPT !["peers"] = read.peer_count]
                IN  /\ beacon_results' = IF tier.issue = None THEN counted
                                         ELSE AddIssues(counted, <<tier.issue>>)
                    /\ log' = log \cup {Log(tier.tier \o " peer connectivity", tier.status)}
    /\ pc' = "b_version"
    /\ req' = NewRequest
    /\ UNCHANGED <<args, attempts, blk, sepolia_results, summary, exit_code, wire,
                   faults, unit, iteration>>

BeaconVersion ==
    /\ pc = "b_version"
    /\ RequestReturned
    /\ LET read == ReadBeaconVersion(req.response.body)
       IN  IF req.response.status_code # 200
           THEN UNCHANGED <<beacon_results, log>>
           ELSE IF read.raised
           THEN /\ beacon_results' = beacon_results
                /\ log' = log \cup {Log("Error getting version", "warning")}
           ELSE /\ beacon_results' = [beacon_results EXCEPT !["version"] = read.version.value]
                /\ log' = log \cup {Log("Node version", "info")}
    /\ pc' = "sepolia"
    /\ req' = NoRequest
    /\ UNCHANGED <<args, attempts, blk, sepolia_results, summary, exit_code, wire,
                   faults, unit, iteration>>

(***************************************************************************)
(* check_sepolia_rpc_enhanced                                              *)
(***************************************************************************)
\* hex(n) without its "0x", as digit values
RECURSIVE HexOf(_)
HexOf(n) == IF n < 16 THEN <<n>> ELSE Append(HexOf(n \div 16), n % 16)

\* the chain the node serves: the timestamp (seconds) of block n
BlockTimestamp(n) == 1700000000 + 12 * n

BlockNumberBodies == {Result(JStr(HexOf(2))), Result(JStr(HexOf(6))), JDict(EmptyDict), NotJson}

BlockFound(block_num) ==
    Result(JDict(Put(EmptyDict, "timestamp", JStr(HexOf(BlockTimestamp(block_num))))))

BlockBodies(block_num) == {BlockFound(block_num), Result(JNull), NotJson}

\* seconds between the newest block fetched and time.time()
BlockAges == {30, 120}

EthSyncingBodies ==
    {Result(JBool(FALSE)),
     Result(JBool(TRUE)),
     Result(JDict(Put(Put(EmptyDict, "currentBlock", JStr(HexOf(16))),
                      "highestBlock", JStr(HexOf(4096))))),
     NotJson}

PeerCountBodies == {Result(JStr(HexOf(10))), Result(JStr(HexOf(15))), Result(JStr(HexOf(2))),
                    NotJson}

\* block_response.json().get("result", {}), then int(block_data.get("timestamp", "0x0"), 16)
ReadBlock(body) ==
    IF body.type # "dict" THEN [raised |-> TRUE]
    ELSE LET block_data == Get(body.items, "result", JDict(EmptyDict))
         IN  IF ~Truthy(block_data) THEN [raised |-> FALSE, found |-> FALSE]
             ELSE IF block_data.type # "dict" THEN [raised |-> TRUE]
             ELSE LET parsed == ParseHex(Get(block_data.items, "timestamp", JStr(<<0>>)))
                  IN  IF parsed.ok
                      THEN [raised |-> FALSE, found |-> TRUE, timestamp |-> parsed.value]
                      ELSE [raised |-> TRUE]

\* response.json().get("result"): False, a dict of hex counters, or anything else
ReadEthSyncing(body) ==
    IF body.type # "dict" THEN [raised |-> TRUE]
    ELSE LET sync_result == Get(body.items, "result", JNull)
         IN  IF sync_result.type = "bool" /\ ~sync_result.value
             THEN [raised |-> FALSE, synced |-> TRUE]
             ELSE IF sync_result.type # "dict"
             THEN [raised |-> FALSE, synced |-> FALSE, known |-> FALSE]
             ELSE LET current_block == ParseHex(Get(sync_result.items, "currentBlock", JStr(<<0>>)))
                      highest_block == ParseHex(Get(sync_result.items, "highestBlock", JStr(<<0>>)))
                  IN  IF ~current_block.ok \/ ~highest_block.ok THEN [raised |-> TRUE]
                      ELSE [raised |-> FALSE, synced |-> FALSE, known |-> TRUE,
                            blocks_behind |-> highest_block.value - current_block.value]

NewSepoliaResults ==
    [reachable |-> FALSE, synced |-> FALSE, chain_id |-> 0, latest_block |-> 0, peers |-> 0,
     performance |-> EmptyDict, issues |-> <<>>, block_time_analysis |-> EmptyDict]

InvalidSepoliaResults == [reachable |-> FALSE, issues |-> <<"Invalid URL format">>]

\* run_health_check, "if args.sepolia:" false
SepoliaSkipped ==
    /\ pc = "sepolia"
    /\ args.sepolia = ""
    /\ pc' = "summary"
    /\ UNCHANGED <<args, attempts, req, blk, beacon_results, sepolia_results, log,
                   summary, exit_code, wire, faults, unit, iteration>>

SepoliaEnter ==
    /\ pc = "sepolia"
    /\ args.sepolia # ""
    /\ IF parse_url(args.sepolia) = None
       THEN /\ sepolia_results' = InvalidSepoliaResults
            /\ log' = log \cup {Log("Invalid Sepolia URL format", "error")}
            /\ pc' = "summary"
       ELSE /\ sepolia_results' = NewSepoliaResults
            /\ log' = log \cup {Log("Testing RPC connection stability...", "info")}
            /\ pc' = "s_connect"
    /\ attempts' = <<>>
    /\ UNCHANGED <<args, req, blk, beacon_results, summary, exit_code, wire, faults, unit, iteration>>

SepoliaConnect ==
    /\ pc = "s_connect"
    /\ \E outcome \in ConnectOutcomes, latency \in ConnectLatencies :
          ConnectStep("sepolia", outcome, latency)
    /\ UNCHANGED <<args, pc, req, blk, beacon_results, sepolia_results, log, summary,
                   exit_code, unit, iteration>>

\* Variant that goes on to the checks of a node no connect has reached.
SepoliaDiagnose_probes_unreachable ==
    /\ pc = "s_connect"
    /\ ConnectionLoopDone
    /\ LET verdict == diagnose_connection_issues(args.timeout, attempts)
       IN  IF verdict.raised
           THEN /\ pc' = "crashed"
                /\ exit_code' = <<1>>
                /\ UNCHANGED <<sepolia_results, log, req>>
           ELSE /\ log' = log \cup {Log("RPC connection test complete", verdict.status)}
                /\ exit_code' = exit_code
                /\ sepolia_results' = IF ~AnySuccess(attempts)
                                      THEN AddIssues(sepolia_results, verdict.details)
                                      ELSE [sepolia_results EXCEPT !["reachable"] = TRUE]
                /\ pc' = "s_chain"
                /\ req' = NewRequest
    /\ attempts' = <<>>
    /\ UNCHANGED <<args, blk, beacon_results, summary, wire, faults, unit, iteration>>

SepoliaDiagnose ==
    /\ pc = "s_connect"
    /\ ConnectionLoopDone
    /\ LET verdict == diagnose_connection_issues(args.timeout, attempts)
       IN  IF verdict.raised
           THEN /\ pc' = "crashed"
                /\ exit_code' = <<1>>
                /\ UNCHANGED <<sepolia_results, log, req>>
           ELSE /\ log' = log \cup {Log("RPC connection test complete", verdict.status)}
                /\ exit_code' = exit_code
                /\ IF ~AnySuccess(attempts)
                   THEN /\ sepolia_results' = AddIssues(sepolia_results, verdict.details)
                        /\ pc' = "summary"
                        /\ req' = req
                   ELSE /\ sepolia_results' = [sepolia_results EXCEPT !["reachable"] = TRUE]
                        /\ pc' = "s_chain"
                        /\ req' = NewRequest
    /\ attempts' = <<>>
    /\ UNCHANGED <<args, blk, beacon_results, summary, wire, faults, unit, iteration>>

SepoliaBodies(at) ==
    CASE at = "s_chain" -> ChainIdBodies
      [] at = "s_blocknum" -> BlockNumberBodies
      [] at = "s_block" -> BlockBodies(sepolia_results.latest_block - blk.i)
      [] at = "s_sync" -> EthSyncingBodies
      [] at = "s_peers" -> PeerCountBodies

UsualSepoliaBody(at) ==
    CASE at = "s_chain" -> Result(JStr(SepoliaChainIdHex))
      [] at = "s_blocknum" -> Result(JStr(HexOf(2)))
      [] at = "s_block" -> BlockFound(sepolia_results.latest_block - blk.i)
      [] at = "s_sync" -> Result(JBool(FALSE))
      [] at = "s_peers" -> Result(JStr(HexOf(15)))

SepoliaRequest ==
    /\ pc \in {"s_chain", "s_blocknum", "s_block", "s_sync", "s_peers"}
    /\ \E outcome \in HttpOutcomes :
         \E body \in (IF outcome # "200" THEN {NotJson} ELSE SepoliaBodies(pc)) :
            RequestStep(outcome, body, UsualSepoliaBody(pc))
    /\ UNCHANGED <<args, pc, attempts, blk, beacon_results, sepolia_results, log,
                   summary, exit_code, unit, iteration>>

\* Variant that takes every chain ID below 11155111 for the mainnet.
ChainIdVerdict_mainnet_range(chain_id) ==
    IF chain_id = 11155111
    THEN [line |-> Log("Confirmed Sepolia testnet (Chain ID: 11155111)", "success"),
          issue |-> None]
    ELSE IF chain_id <= 1
    THEN [line |-> Log("Connected to Ethereum Mainnet instead of Sepolia", "warning"),
          issue |-> "Wrong network - connected to mainnet"]
    ELSE [line |-> Log("Unexpected chain ID", "warning"),
          issue |-> "Unknown network (Chain ID)"]

\* the network a chain ID names: the log line and the issue (None: no issue)
ChainIdVerdict(chain_id) ==
    IF chain_id = 11155111
    THEN [line |-> Log("Confirmed Sepolia testnet (Chain ID: 11155111)", "success"),
          issue |-> None]
    ELSE IF chain_id = 1
    THEN [line |-> Log("Connected to Ethereum Mainnet instead of Sepolia", "warning"),
          issue |-> "Wrong network - connected to mainnet"]
    ELSE [line |-> Log("Unexpected chain ID", "warning"),
          issue |-> "Unknown network (Chain ID)"]

\* what the check does with the answer to eth_chainId: the dict and the lines logged
ChainIdFold(results, perf_data, response) ==
    LET timed == SetPerf(results, "chain_id_check", perf_data)
        read == ReadHexResult(response.body)
    IN  IF response.status_code # 200 THEN [results |-> timed, lines |-> {}]
        ELSE IF read.raised
        THEN [results |-> timed, lines |-> {Log("Error parsing chain ID", "error")}]
        ELSE LET verdict == ChainIdVerdict(read.value)
                 identified == [timed EXCEPT !["chain_id"] = read.value]
             IN  [results |-> IF verdict.issue = None THEN identified
                              ELSE AddIssues(identified, <<verdict.issue>>),
                  lines |-> {verdict.line}]

SepoliaChainId ==
    /\ pc = "s_chain"
    /\ RequestReturned
    /\ LET fold == ChainIdFold(sepolia_results, PerfData, req.response)
       IN  /\ sepolia_results' = fold.results
           /\ log' = log \cup fold.lines
    /\ pc' = "s_blocknum"
    /\ req' = NewRequest
    /\ UNCHANGED <<args, attempts, blk, beacon_results, summary, exit_code, wire,
                   faults, unit, iteration>>

\* eth_blockNumber: latest_block, then into the loop over the five recent blocks
SepoliaBlockNumber ==
    /\ pc = "s_blocknum"
    /\ RequestReturned
    /\ LET results == SetPerf(sepolia_results, "block_number_check", PerfData)
           read == ReadHexResult(req.response.body)
       IN  IF req.response.status_code # 200
           THEN /\ sepolia_results' = results /\ log' = log
                /\ pc' = "s_sync" /\ req' = NewRequest
           ELSE IF read.raised
           THEN /\ sepolia_results' = results
                /\ log' = log \cup {Log("Error analyzing blocks", "error")}
                /\ pc' = "s_sync" /\ req' = NewRequest
           ELSE /\ sepolia_results' = [results EXCEPT !["latest_block"] = read.value]
                /\ log' = log \cup {Log("Latest block", "success"),
                                    Log("Block query latency", "performance")}
                /\ pc' = "s_blocks" /\ req' = NoRequest
    /\ blk' = NoBlocks
    /\ UNCHANGED <<args, attempts, beacon_results, summary, exit_code, wire, faults, unit, iteration>>

\* "for i in range(5)": an iteration whose block_num is not positive
BlockLoopSkip ==
    /\ pc = "s_blocks"
    /\ blk.i < 5
    /\ sepolia_results.latest_block - blk.i <= 0
    /\ blk' = [blk EXCEPT !.i = @ + 1]
    /\ UNCHANGED <<args, pc, attempts, req, beacon_results, sepolia_results, log,
                   summary, exit_code, wire, faults, unit, iteration>>

\* Variant whose loop over the recent blocks runs six times.
BlockLoopAsk_six ==
    /\ pc = "s_blocks"
    /\ blk.i < 6
    /\ sepolia_results.latest_block - blk.i > 0
    /\ pc' = "s_block"
    /\ req' = NewRequest
    /\ UNCHANGED <<args, attempts, blk, beacon_results, sepolia_results, log,
                   summary, exit_code, wire, faults, unit, iteration>>

\* an iteration that asks for its block
BlockLoopAsk ==
    /\ pc = "s_blocks"
    /\ blk.i < 5
    /\ sepolia_results.latest_block - blk.i > 0
    /\ pc' = "s_block"
    /\ req' = NewRequest
    /\ UNCHANGED <<args, attempts, blk, beacon_results, sepolia_results, log,
                   summary, exit_code, wire, faults, unit, iteration>>

\* the answer to eth_getBlockByNumber; an exception leaves the whole block analysis
SepoliaBlock ==
    /\ pc = "s_block"
    /\ RequestReturned
    /\ LET read == ReadBlock(req.response.body)
           block_num == sepolia_results.latest_block - blk.i
       IN  IF req.response.status_code = 200 /\ read.raised
           THEN /\ log' = log \cup {Log("Error analyzing blocks", "error")}
                /\ blk' = NoBlocks
                /\ pc' = "s_sync" /\ req' = NewRequest
           ELSE /\ log' = log
                /\ blk' = [i |-> blk.i + 1,
                           recent_blocks |->
                              IF req.response.status_code = 200 /\ read.found
                              THEN Append(blk.recent_blocks,
                                          [number |-> block_num, timestamp |-> read.timestamp])
                              ELSE blk.recent_blocks]
                /\ pc' = "s_blocks" /\ req' = NoRequest
    /\ UNCHANGED <<args, attempts, beacon_results, sepolia_results, summary, exit_code,
                   wire, faults, unit, iteration>>

\* recent_blocks.sort(key=number): the blocks were appended by falling number
SortByNumber(blocks) == [i \in 1..Len(blocks) |-> blocks[Len(blocks) + 1 - i]]

BlockTimes(sorted) == [i \in 1..(Len(sorted) - 1) |-> sorted[i + 1].timestamp - sorted[i].timestamp]

\* after the loop: block times and the age of the newest block
SepoliaBlockAnalysis ==
    /\ pc = "s_blocks"
    /\ blk.i >= 5
    /\ IF Len(blk.recent_blocks) >= 2
       THEN \E last_block_time \in BlockAges :
              LET block_times == BlockTimes(SortByNumber(blk.recent_blocks))
                  avg_block_time == Sum(block_times) \div Len(block_times)
                  analysed == [sepolia_results EXCEPT !["block_time_analysis"] =
                                  [avg_block_time |-> avg_block_time,
                                   last_block_age |-> last_block_time]]
              IN  /\ last_block_time > 60 => faults < MaxFaults
                  /\ faults' = IF last_block_time > 60 THEN faults + 1 ELSE faults
                  /\ sepolia_results' = IF last_block_time > 60
                                        THEN AddIssues(analysed, <<"Node may be behind on sync">>)
                                        ELSE analysed
                  /\ log' = log \cup {IF last_block_time > 60
                                      THEN Log("Last block is old - may be syncing", "warning")
                                      ELSE Log("Recent block activity", "success"),
                                      IF avg_block_time > 20
                                      THEN Log("Block time seems slow", "warning")
                                      ELSE Log("Block time healthy", "success")}
       ELSE UNCHANGED <<sepolia_results, log, faults>>
    /\ blk' = NoBlocks
    /\ pc' = "s_sync"
    /\ req' = NewRequest
    /\ UNCHANGED <<args, attempts, beacon_results, summary, exit_code, wire, unit, iteration>>

SepoliaSync ==
    /\ pc = "s_sync"
    /\ RequestReturned
    /\ LET results == SetPerf(sepolia_results, "sync_check", PerfData)
           read == ReadEthSyncing(req.response.body)
       IN  IF req.response.status_code # 200
           THEN sepolia_results' = results /\ log' = log
           ELSE IF read.raised
           THEN /\ sepolia_results' = results
                /\ log' = log \cup {Log("Error checking sync status", "error")}
           ELSE IF read.synced
           THEN /\ sepolia_results' = [results EXCEPT !["synced"] = TRUE]
                /\ log' = log \cup {Log("Sepolia node is fully synced", "success")}
           ELSE IF ~read.known
           THEN /\ sepolia_results' = results
                /\ log' = log \cup {Log("Node is syncing (details unavailable)", "info")}
           ELSE IF read.blocks_behind > 1000
           THEN /\ sepolia_results' = AddIssues(results, <<"Syncing: blocks behind">>)
                /\ log' = log \cup {Log("Node is significantly behind", "warning")}
           ELSE /\ sepolia_results' = results
                /\ log' = log \cup {Log("Node is catching up", "info")}
    /\ pc' = "s_peers"
    /\ req' = NewRequest
    /\ UNCHANGED <<args, attempts, blk, beacon_results, summary, exit_code, wire,
                   faults, unit, iteration>>

SepoliaPeers ==
    /\ pc = "s_peers"
    /\ RequestReturned
    /\ LET results == SetPerf(sepolia_results, "peer_check", PerfData)
           read == ReadHexResult(req.response.body)
       IN  IF req.response.status_code # 200
           THEN sepolia_results' = results /\ log' = log
           ELSE IF read.raised
           THEN /\ sepolia_results' = results
                /\ log' = log \cup {Log("Error checking peer count", "error")}
           ELSE LET tier == SepoliaPeerTier(read.value)
                    counted == [results EXCEPT !["peers"] = read.value]
                IN  /\ sepolia_results' = IF tier.issue = None THEN counted
                                          ELSE AddIssues(counted, <<tier.issue>>)
                    /\ log' = log \cup {Log(tier.tier \o " peer connectivity", tier.status)}
    /\ pc' = "summary"
    /\ req' = NoRequest
    /\ UNCHANGED <<args, attempts, blk, beacon_results, summary, exit_code, wire,
                   faults, unit, iteration>>

(***************************************************************************)
(* print_enhanced_summary and the end of main                              *)
(***************************************************************************)
BeaconHealthy(results) == Get(results, "reachable", FALSE) /\ Get(results, "healthy", FALSE)

\* Variant for which a node that was not checked counts as healthy.
SepoliaHealthy_unchecked_passes(results) == Get(results, "reachable", TRUE)

SepoliaHealthy(results) == Get(results, "reachable", FALSE)

\* Variant that is content with one healthy node.
AllHealthy_either(beacon, sepolia) == BeaconHealthy(beacon) \/ SepoliaHealthy(sepolia)

AllHealthy(beacon, sepolia) == BeaconHealthy(beacon) /\ SepoliaHealthy(sepolia)

\* Variant that reads OPTIMAL for a beacon still syncing and FUNCTIONAL for a synced one.
BeaconStatusLine_synced_exchanged(results) ==
    IF BeaconHealthy(results)
    THEN IF Get(results, "synced", FALSE) THEN "Beacon Chain: FUNCTIONAL (healthy, syncing)"
         ELSE "Beacon Chain: OPTIMAL (healthy & synced)"
    ELSE "Beacon Chain: CRITICAL (offline/unhealthy)"

BeaconStatusLine(results) ==
    IF BeaconHealthy(results)
    THEN IF Get(results, "synced", FALSE) THEN "Beacon Chain: OPTIMAL (healthy & synced)"
         ELSE "Beacon Chain: FUNCTIONAL (healthy, syncing)"
    ELSE "Beacon Chain: CRITICAL (offline/unhealthy)"

\* Variant that reads the beacon's "healthy" key on the execution node's dict.
SepoliaStatusLine_needs_healthy(results) ==
    IF SepoliaHealthy(results) /\ Get(results, "healthy", FALSE)
    THEN IF Get(results, "synced", FALSE) THEN "Sepolia RPC: OPTIMAL (reachable & synced)"
         ELSE "Sepolia RPC: FUNCTIONAL (reachable, syncing)"
    ELSE "Sepolia RPC: CRITICAL (unreachable)"

SepoliaStatusLine(results) ==
    IF SepoliaHealthy(results)
    THEN IF Get(results, "synced", FALSE) THEN "Sepolia RPC: OPTIMAL (reachable & synced)"
         ELSE "Sepolia RPC: FUNCTIONAL (reachable, syncing)"
    ELSE "Sepolia RPC: CRITICAL (unreachable)"

PrintSummary ==
    /\ pc = "summary"
    /\ LET all_issues == Get(beacon_results, "issues", <<>>) \o Get(sepolia_results, "issues", <<>>)
       IN  summary' =
             [beacon_line |-> BeaconStatusLine(beacon_results),
              sepolia_line |-> SepoliaStatusLine(sepolia_results),
              beacon_peers |-> Get(beacon_results, "peers", "N/A"),
              sepolia_peers |-> Get(sepolia_results, "peers", "N/A"),
              chain_id |-> Get(sepolia_results, "chain_id", "N/A"),
              issues |-> all_issues,
              troubleshooting |-> \/ ~BeaconHealthy(beacon_results)
                                  \/ ~SepoliaHealthy(sepolia_results)
                                  \/ all_issues # <<>>,
              all_healthy |-> AllHealthy(beacon_results, sepolia_results)]
    /\ pc' = "main"
    /\ UNCHANGED <<args, attempts, req, blk, beacon_results, sepolia_results, log,
                   exit_code, wire, faults, unit, iteration>>

\* single run: sys.exit(0 if all_healthy else 1)
ExitCode(all_healthy) == IF all_healthy THEN 0 ELSE 1

Exit ==
    /\ pc = "main"
    /\ args.monitor = 0
    /\ exit_code' = <<ExitCode(summary.all_healthy)>>
    /\ pc' = "exited"
    /\ UNCHANGED <<args, attempts, req, blk, beacon_results, sepolia_results, log,
                   summary, wire, faults, unit, iteration>>

\* one call of run_health_check
run_health_check ==
    \/ BeaconSkipped \/ BeaconEnter \/ BeaconConnect \/ BeaconDiagnose \/ BeaconRequest
    \/ BeaconHealth \/ BeaconSync \/ BeaconPeers \/ BeaconVersion
    \/ SepoliaSkipped \/ SepoliaEnter \/ SepoliaConnect \/ SepoliaDiagnose \/ SepoliaRequest
    \/ SepoliaChainId \/ SepoliaBlockNumber \/ BlockLoopSkip \/ BlockLoopAsk \/ SepoliaBlock
    \/ SepoliaBlockAnalysis \/ SepoliaSync \/ SepoliaPeers
    \/ PrintSummary

Next == run_health_check \/ Exit

Spec == InitRun /\ [][Next]_vars

\* The run is one thread whose every connect, request and sleep returns within
\* its timeout: a step that can be taken is taken.  Runs with retries >= 1 and
\* at most one connect or answer that is not a healthy node's.
InitLive ==
    /\ args \in {[beacon |-> b, sepolia |-> s, timeout |-> t, retries |-> r, monitor |-> 0] :
                    b \in {"", BadUrl, BeaconUrl}, s \in {"", BadUrl, SepoliaUrl},
                    t \in RunTimeouts, r \in 1..MaxRetries}
    /\ pc = "beacon"
    /\ attempts = <<>>
    /\ req = NoRequest
    /\ blk = NoBlocks
    /\ beacon_results = EmptyDict
    /\ sepolia_results = EmptyDict
    /\ log = {}
    /\ summary = NoSummary
    /\ exit_code = <<>>
    /\ wire = <<>>
    /\ faults = MaxFaults - 1
    /\ unit = NoUnit
    /\ iteration = 0

SpecLive == InitLive /\ [][Next]_vars /\ WF_vars(Next)

(***************************************************************************)
(* Monitor mode: "while True" around run_health_check and a sleep of       *)
(* args.monitor seconds, left only by an exception; KeyboardInterrupt is   *)
(* caught and exits with 0.  Each call of run_health_check builds its own  *)
(* checker and its own two dicts.                                          *)
(***************************************************************************)
\* --monitor is any int but 0 (type=int, "if args.monitor:")
MonitorIntervals == {-1, 10, 60}

InitMonitor ==
    /\ args \in {[beacon |-> b, sepolia |-> s, timeout |-> t, retries |-> r, monitor |-> m] :
                    b \in {"", BeaconUrl}, s \in {"", SepoliaUrl},
                    t \in RunTimeouts, r \in {0, 1}, m \in MonitorIntervals}
    /\ pc = "beacon"
    /\ attempts = <<>>
    /\ req = NoRequest
    /\ blk = NoBlocks
    /\ beacon_results = EmptyDict
    /\ sepolia_results = EmptyDict
    /\ log = {}
    /\ summary = NoSummary
    /\ exit_code = <<>>
    /\ wire = <<>>
    /\ faults = 0
    /\ unit = NoUnit
    /\ iteration = 0

\* Variant whose next iteration starts from the dicts of the last one.
MonitorAgain_keeps_results ==
    /\ pc = "main"
    /\ args.monitor # 0
    /\ IF args.monitor < 0
       THEN /\ pc' = "crashed"
            /\ exit_code' = <<1>>
            /\ UNCHANGED <<attempts, req, blk, beacon_results, sepolia_results, log,
                           summary, wire, faults, iteration>>
       ELSE /\ iteration < MaxIterations
            /\ iteration' = iteration + 1
            /\ pc' = "beacon"
            /\ attempts' = <<>>
            /\ req' = NoRequest
            /\ blk' = NoBlocks
            /\ log' = {}
            /\ summary' = NoSummary
            /\ wire' = <<>>
            /\ faults' = 0
            /\ UNCHANGED <<beacon_results, sepolia_results, exit_code>>
    /\ UNCHANGED <<args, unit>>

\* the sleep, then the next call of run_health_check: a new checker, two empty
\* dicts.  An interval of at most 30 is slept in one time.sleep(args.monitor),
\* which raises ValueError for a negative length; nothing catches it.
MonitorAgain ==
    /\ pc = "main"
    /\ args.monitor # 0
    /\ IF args.monitor < 0
       THEN /\ pc' = "crashed"
            /\ exit_code' = <<1>>
            /\ UNCHANGED <<attempts, req, blk, beacon_results, sepolia_results, log,
                           summary, wire, faults, iteration>>
       ELSE /\ iteration < MaxIterations
            /\ iteration' = iteration + 1
            /\ pc' = "beacon"
            /\ attempts' = <<>>
            /\ req' = NoRequest
            /\ blk' = NoBlocks
            /\ beacon_results' = EmptyDict
            /\ sepolia_results' = EmptyDict
            /\ log' = {}
            /\ summary' = NoSummary
            /\ wire' = <<>>
            /\ faults' = 0
            /\ exit_code' = exit_code
    /\ UNCHANGED <<args, unit>>

\* Ctrl+C anywhere in the loop: "Monitoring stopped by user", sys.exit(0)
KeyboardInterrupt ==
    /\ args.monitor # 0
    /\ pc \notin {"exited", "crashed"}
    /\ exit_code' = <<0>>
    /\ pc' = "exited"
    /\ UNCHANGED <<args, attempts, req, blk, beacon_results, sepolia_results, log,
                   summary, wire, faults, unit, iteration>>

NextMonitor == run_health_check \/ MonitorAgain \/ KeyboardInterrupt

SpecMonitor == InitMonitor /\ [][NextMonitor]_vars

(***************************************************************************)
(* The chain ID step on its own: the answer "0x" + digits to eth_chainId,  *)
(* folded into a fresh dict of a reachable node.                           *)
(***************************************************************************)
UnitChainDigits == SeqsUpTo(HexDigits, MaxHexLen) \cup {SepoliaChainIdHex}

InitChainId ==
    /\ Idle
    /\ unit \in {[fn |-> "chain_id", digits |-> ds, applied |-> FALSE, out |-> None] :
                    ds \in UnitChainDigits}

ApplyChainId ==
    /\ unit.fn = "chain_id"
    /\ ~unit.applied
    /\ unit' = [unit EXCEPT !.applied = TRUE,
                            !.out = ChainIdFold([NewSepoliaResults EXCEPT !["reachable"] = TRUE],
                                                [attempts |-> 1, errors |-> <<>>],
                                                Response200(Result(JStr(unit.digits))))]
    /\ UNCHANGED runVars

SpecChainId == InitChainId /\ [][ApplyChainId]_vars

(***************************************************************************)
(*                         Properties of the classifier                    *)
(***************************************************************************)
Classified == unit.fn = "classify" /\ unit.applied

NoneSucceeded == \A i \in 1..Len(unit.attempts) : ~unit.attempts[i].success
AllSucceeded == \A i \in 1..Len(unit.attempts) : unit.attempts[i].success
SomeSucceeded == \E i \in 1..Len(unit.attempts) : unit.attempts[i].success

\* total latency and number of the attempts whose success flag is ok
TotalOf(ok) == Sum([i \in 1..Len(Filter(unit.attempts, ok)) |->
                        Filter(unit.attempts, ok)[i].latency])
CountOf(ok) == Cardinality({i \in 1..Len(unit.attempts) : unit.attempts[i].success = ok})

\* C3: for every attempt sequence in which no connection attempt succeeded,
\* the classifier never returns severity "success" (on the empty sequence it
\* returns nothing at all: it raises).
C3_NoSuccessNeverSuccess ==
    (Classified /\ NoneSucceeded) => unit.out.status # "success"

C3_Witness ==
    /\ Classified /\ NoneSucceeded /\ Len(unit.attempts) >= 2
    /\ unit.out.status = "error"

\* C4 as stated: with no successful attempt the classifier answers "critical"
\* when the mean failed latency is AT LEAST 90% of the timeout, otherwise
\* "critical" when the mean is above 5000 ms, otherwise "error".
C4_Original ==
    (Classified /\ NoneSucceeded /\ unit.attempts # <<>>) =>
        unit.out.status =
            IF TotalOf(FALSE) * 10 >= unit.timeout * 9000 * CountOf(FALSE) THEN "critical"
            ELSE IF TotalOf(FALSE) > 5000 * CountOf(FALSE) THEN "critical"
            ELSE "error"

\* C4 amended: with no successful attempt the classifier answers "critical"
\* (timeout lines) when the mean failed latency is STRICTLY ABOVE 90% of the
\* timeout, otherwise "critical" (overload lines) when the mean is above
\* 5000 ms, otherwise "error"; a mean exactly equal to 90% of the timeout is
\* decided by the 5000 ms test.  With no attempt at all it raises.
C4_StrictTimeoutThreshold ==
    (Classified /\ NoneSucceeded) =>
        IF unit.attempts = <<>> THEN unit.out.raised
        ELSE /\ ~unit.out.raised
             /\ <<unit.out.status, unit.out.details>> =
                  IF TotalOf(FALSE) * 10 > unit.timeout * 9000 * CountOf(FALSE)
                  THEN <<"critical", TimeoutLines>>
                  ELSE IF TotalOf(FALSE) > 5000 * CountOf(FALSE)
                       THEN <<"critical", OverloadLines>>
                       ELSE <<"error", RefusedLines>>

\* a mean exactly at 90% of a 5 s timeout, classified "error"
C4_Witness ==
    /\ Classified /\ NoneSucceeded /\ unit.attempts # <<>>
    /\ TotalOf(FALSE) * 10 = unit.timeout * 9000 * CountOf(FALSE)
    /\ unit.out.status = "error"

\* C5: when at least one attempt succeeded the classifier answers "warning"
\* if any attempt failed, otherwise "warning" if the mean latency of the
\* successful attempts is above 1000 ms, otherwise "success".
C5_SomeSucceededTable ==
    (Classified /\ SomeSucceeded) =>
        /\ ~unit.out.raised
        /\ <<unit.out.status, unit.out.details>> =
             IF ~AllSucceeded THEN <<"warning", IntermittentLines>>
             ELSE IF TotalOf(TRUE) > 1000 * CountOf(TRUE)
                  THEN <<"warning", HighLatencyLines>>
                  ELSE <<"success", StableLines>>

\* all attempts succeeded with a mean of exactly 1000 ms: "success"
C5_Witness ==
    /\ Classified /\ AllSucceeded /\ Len(unit.attempts) >= 2
    /\ TotalOf(TRUE) = 1000 * CountOf(TRUE)
    /\ unit.out.status = "success"

(***************************************************************************)
(*                      Properties of the peer-count tiers                 *)
(***************************************************************************)
TierRank(t) == CASE t.tier = "Poor" -> 0
                 [] t.tier = "Minimal" -> 1
                 [] t.tier = "Good" -> 2
                 [] t.tier = "Excellent" -> 3

NoWorse(lower, higher) ==
    /\ TierRank(higher) >= TierRank(lower)
    /\ higher.issue # None => lower.issue # None

\* C9: for peer counts p <= q, on either node, the tier of q is never worse
\* than the tier of p (Poor < Minimal < Good < Excellent), and q gets an issue
\* only if p gets one.
C9_PeerTiersMonotonic ==
    (unit.fn = "peers" /\ unit.applied /\ unit.p <= unit.q) =>
        /\ NoWorse(unit.out.beacon_p, unit.out.beacon_q)
        /\ NoWorse(unit.out.sepolia_p, unit.out.sepolia_q)

C9_Witness ==
    /\ unit.fn = "peers" /\ unit.applied /\ unit.p < unit.q
    /\ unit.out.beacon_p.issue # None /\ unit.out.beacon_q.tier = "Good"
    /\ unit.out.sepolia_q.tier = "Excellent"

(***************************************************************************)
(*                          Properties of the run                          *)
(***************************************************************************)
\* the history of one node: its connects, its HTTP attempts
Connects(node) == SelectSeq(wire, LAMBDA e : e.op = "connect" /\ e.node = node)
HttpAttempts(node) == SelectSeq(wire, LAMBDA e : e.node = node /\ e.op \notin {"connect", "sleep 500ms"})
AttemptsOf(op) == SelectSeq(wire, LAMBDA e : e.op = op)

\* every connect the node check makes has been made, and each was answered with how
EveryConnect(node, how) ==
    /\ args.retries >= 1
    /\ Len(Connects(node)) = args.retries
    /\ \A i \in 1..Len(Connects(node)) : Connects(node)[i].answer \in how

\* the call of op got a 200 with this body
Answered(op, body) ==
    /\ AttemptsOf(op) # <<>>
    /\ AttemptsOf(op)[Len(AttemptsOf(op))].answer = "200"
    /\ AttemptsOf(op)[Len(AttemptsOf(op))].body = body

Flag(results, key) == key \in DOMAIN results /\ results[key]

\* C1: in single-run mode the exit code is 0 exactly when the summary's overall
\* flag is true and 1 otherwise, and the overall flag is (beacon reachable and
\* beacon healthy) and (execution node reachable), absent keys counting as false.
C1_ExitCodeIsOverallFlag ==
    /\ DOMAIN summary # {} =>
          summary.all_healthy = ((Flag(beacon_results, "reachable") /\ Flag(beacon_results, "healthy"))
                                 /\ Flag(sepolia_results, "reachable"))
    /\ exit_code # <<>> =>
          /\ exit_code \in {<<0>>, <<1>>}
          /\ exit_code = <<0>> <=> (DOMAIN summary # {} /\ summary.all_healthy)

\* a reachable beacon that failed its health check, next to a reachable execution node
C1_Witness ==
    /\ pc = "exited" /\ exit_code = <<1>>
    /\ Flag(beacon_results, "reachable") /\ ~Flag(beacon_results, "healthy")
    /\ Flag(sepolia_results, "reachable")

\* the HTTP attempts of the call in progress: the last req.attempt of the history
CallAttempts ==
    LET http == SelectSeq(wire, LAMBDA e : e.op \notin {"connect", "sleep 500ms"})
    IN  SubSeq(http, Len(http) - req.attempt + 1, Len(http))

\* C2: a call of make_request_with_retry makes at most `retries` HTTP attempts,
\* and it returns None only when each of its attempts got a non-200 status or
\* raised.
C2_AtMostRetriesAndNoneOnlyIfAllFailed ==
    req.active =>
        /\ req.attempt <= args.retries
        /\ Len(CallAttempts) = req.attempt
        /\ \A i \in 1..Len(CallAttempts) : CallAttempts[i].op = Endpoint(pc)
        /\ (RequestReturned /\ req.response = NoneResponse) =>
              \A i \in 1..Len(CallAttempts) : CallAttempts[i].answer \in {"HTTP 503", "exception"}

\* a call that returned None after a non-200 and an exception
C2_Witness ==
    /\ req.active /\ RequestReturned /\ req.response = NoneResponse
    /\ req.attempt = 2 /\ req.errors = <<"HTTP 503", "exception">>

\* C6: when every connect to a node fails (and at least one was made), that
\* node's check returns with reachable = false and sends the node no HTTP
\* request, and the other node is still probed in the same run.
OtherProbed(other_url, other) ==
    (other_url # "" /\ parse_url(other_url) # None) => Len(Connects(other)) = args.retries

C6_UnreachableShortCircuitsOnlyItsNode ==
    /\ EveryConnect("beacon", {"refused", "raised"}) =>
          /\ HttpAttempts("beacon") = <<>>
          /\ pc # "crashed"
          /\ pc # "b_connect" => /\ beacon_results.reachable = FALSE
                                 /\ beacon_results.issues # <<>>
          /\ pc \in {"main", "exited"} => OtherProbed(args.sepolia, "sepolia")
    /\ EveryConnect("sepolia", {"refused", "raised"}) =>
          /\ HttpAttempts("sepolia") = <<>>
          /\ pc # "crashed"
          /\ pc # "s_connect" => /\ sepolia_results.reachable = FALSE
                                 /\ sepolia_results.issues # <<>>
          /\ OtherProbed(args.beacon, "beacon")

\* the beacon was unreachable and the execution node was then probed and found reachable
C6_Witness ==
    /\ pc = "exited"
    /\ EveryConnect("beacon", {"refused", "raised"})
    /\ beacon_results.reachable = FALSE
    /\ Len(Connects("sepolia")) = args.retries
    /\ Flag(sepolia_results, "reachable")

\* the lines and issues by which each check of a reachable node speaks of itself
CheckLines(op) ==
    CASE op = "GET /eth/v1/node/health" ->
            {"Beacon node is responding and healthy", "Beacon node health check failed"}
      [] op = "GET /eth/v1/node/syncing" ->
            {"Beacon node is fully synced", "Beacon node is significantly behind",
             "Beacon node is catching up (near synced)", "Error parsing sync data"}
      [] op = "GET /eth/v1/node/peers" ->
            {"Excellent peer connectivity", "Good peer connectivity",
             "Minimal peer connectivity", "Poor peer connectivity", "Error parsing peer data"}
      [] op = "GET /eth/v1/node/version" -> {"Node version", "Error getting version"}
      [] op = "POST eth_chainId" ->
            {"Confirmed Sepolia testnet (Chain ID: 11155111)",
             "Connected to Ethereum Mainnet instead of Sepolia", "Unexpected chain ID",
             "Error parsing chain ID"}
      [] op = "POST eth_blockNumber" -> {"Latest block", "Error analyzing blocks"}
      [] op = "POST eth_syncing" ->
            {"Sepolia node is fully synced", "Node is syncing (details unavailable)",
             "Node is significantly behind", "Node is catching up", "Error checking sync status"}
      [] op = "POST net_peerCount" ->
            {"Excellent peer connectivity", "Good peer connectivity",
             "Minimal peer connectivity", "Poor peer connectivity", "Error checking peer count"}

CheckIssues(op) ==
    CASE op = "GET /eth/v1/node/health" -> {"Health endpoint failed after"}
      [] op = "GET /eth/v1/node/syncing" -> {"Syncing behind by slots"}
      [] op \in {"GET /eth/v1/node/peers", "POST net_peerCount"} -> {LowPeers, VeryLowPeers}
      [] op = "POST eth_chainId" ->
            {"Wrong network - connected to mainnet", "Unknown network (Chain ID)"}
      [] op = "POST eth_syncing" -> {"Syncing: blocks behind"}
      [] OTHER -> {}

SingleChecks == {"GET /eth/v1/node/health", "GET /eth/v1/node/syncing",
                 "GET /eth/v1/node/peers", "GET /eth/v1/node/version", "POST eth_chainId",
                 "POST eth_blockNumber", "POST eth_syncing", "POST net_peerCount"}

\* the check ended with no response: `retries` attempts, none answered 200
EndedWithNoResponse(op) ==
    /\ AttemptsOf(op) # <<>>
    /\ Len(AttemptsOf(op)) = args.retries
    /\ \A i \in 1..Len(AttemptsOf(op)) : AttemptsOf(op)[i].answer # "200"

Surfaced(op) ==
    \/ \E line \in log : line[1] \in CheckLines(op)
    \/ \E i \in 1..Len(summary.issues) : summary.issues[i] \in CheckIssues(op)

\* C7: whenever a check of a reachable node ends with no response after its
\* retries, a printed log line or a collected issue speaks of that check by
\* the time the run ends.
C7_FailuresSurfaced ==
    pc = "exited" => \A op \in SingleChecks : EndedWithNoResponse(op) => Surfaced(op)

\* C10: every beacon connect refused, the execution node reachable and
\* answering chain id 0xaa36a7, eth_syncing false and peer count 0xa: the run
\* exits with 1, the beacon line is CRITICAL, the execution line is OPTIMAL
\* and the execution peer count recorded and shown is 10.
C10_Scenario ==
    /\ EveryConnect("beacon", {"refused"})
    /\ \E i \in 1..Len(Connects("sepolia")) : Connects("sepolia")[i].answer = "connected"
    /\ Answered("POST eth_chainId", Result(JStr(<<10, 10, 3, 6, 10, 7>>)))
    /\ Answered("POST eth_syncing", Result(JBool(FALSE)))
    /\ Answered("POST net_peerCount", Result(JStr(<<10>>)))

C10_BeaconDownExecutionOptimal ==
    (pc = "exited" /\ C10_Scenario) =>
        /\ exit_code = <<1>>
        /\ summary.beacon_line = "Beacon Chain: CRITICAL (offline/unhealthy)"
        /\ summary.sepolia_line = "Sepolia RPC: OPTIMAL (reachable & synced)"
        /\ sepolia_results.peers = 10
        /\ summary.sepolia_peers = 10

C10_Witness == pc = "exited" /\ C10_Scenario /\ exit_code = <<1>>

(***************************************************************************)
(*                      Properties of the chain ID step                    *)
(***************************************************************************)
IssuesAdded == {unit.out.results.issues[i] : i \in 1..Len(unit.out.results.issues)}

\* the number "0x" + unit.digits spells, digit by digit
RECURSIVE Spelled(_, _)
Spelled(ds, acc) == IF ds = <<>> THEN acc ELSE Spelled(Tail(ds), 16 * acc + Head(ds))

\* C8: for a parsed eth_chainId answer, 11155111 is logged as the expected
\* network and adds no issue, 1 adds the "wrong network" issue, every other
\* value adds the "unknown network" issue; exactly one of the three happens.
C8_ChainIdThreeWay ==
    (unit.fn = "chain_id" /\ unit.applied /\ unit.digits # <<>>) =>
        LET id == Spelled(unit.digits, 0)
        IN  /\ unit.out.results.chain_id = id
            /\ Cardinality(unit.out.lines) = 1
            /\ id = 11155111 =>
                  /\ unit.out.lines = {Log("Confirmed Sepolia testnet (Chain ID: 11155111)", "success")}
                  /\ IssuesAdded = {}
            /\ id = 1 =>
                  /\ unit.out.lines = {Log("Connected to Ethereum Mainnet instead of Sepolia", "warning")}
                  /\ unit.out.results.issues = <<"Wrong network - connected to mainnet">>
            /\ id \notin {1, 11155111} =>
                  /\ unit.out.lines = {Log("Unexpected chain ID", "warning")}
                  /\ unit.out.results.issues = <<"Unknown network (Chain ID)">>

\* the answer "0xaa36a7"
C8_Witness ==
    /\ unit.fn = "chain_id" /\ unit.applied
    /\ unit.digits = <<10, 10, 3, 6, 10, 7>>
    /\ unit.out.results.chain_id = 11155111
    /\ unit.out.results.issues = <<>>
(***************************************************************************)
(*                     Properties of the run, continued                    *)
(***************************************************************************)
Reachable(node) == \E i \in 1..Len(Connects(node)) : Connects(node)[i].answer = "connected"

\* C11: both nodes reachable, the beacon health endpoint answering 200, the
\* beacon reporting is_syncing false and 25 peers, the execution node chain id
\* 11155111, eth_syncing false and 15 peers: the run exits with 0 and both
\* status lines read OPTIMAL.
C11_Scenario ==
    /\ Reachable("beacon") /\ Reachable("sepolia")
    /\ \E body \in BeaconBodies("b_health") : Answered("GET /eth/v1/node/health", body)
    /\ Answered("GET /eth/v1/node/syncing", NotSyncing)
    /\ Answered("GET /eth/v1/node/peers", Data(JList(25)))
    /\ Answered("POST eth_chainId", Result(JStr(<<10, 10, 3, 6, 10, 7>>)))
    /\ Answered("POST eth_syncing", Result(JBool(FALSE)))
    /\ Answered("POST net_peerCount", Result(JStr(<<15>>)))

C11_BothOptimal ==
    (pc = "exited" /\ C11_Scenario) =>
        /\ exit_code = <<0>>
        /\ summary.all_healthy
        /\ summary.beacon_line = "Beacon Chain: OPTIMAL (healthy & synced)"
        /\ summary.sepolia_line = "Sepolia RPC: OPTIMAL (reachable & synced)"
        /\ summary.beacon_peers = 25 /\ summary.sepolia_peers = 15
        /\ summary.chain_id = 11155111

\* the scenario, here with a beacon version request that got no answer
C11_Witness ==
    /\ pc = "exited" /\ C11_Scenario /\ exit_code = <<0>>
    /\ EndedWithNoResponse("GET /eth/v1/node/version")

\* C12: make_request_with_retry returns on the first 200: no attempt of a call
\* follows a 200 of that call, and the outcome returned with a 200 counts the
\* attempts up to and including it, with one error for each earlier attempt.
C12_ReturnsOnFirst200 ==
    req.active =>
        /\ \A i \in 1..(Len(CallAttempts) - 1) : CallAttempts[i].answer # "200"
        /\ req.response.status_code = 200 =>
              /\ CallAttempts # <<>>
              /\ CallAttempts[Len(CallAttempts)].answer = "200"
              /\ CallAttempts[Len(CallAttempts)].body = req.response.body
              /\ PerfData.attempts = Len(CallAttempts)
              /\ Len(PerfData.errors) = PerfData.attempts - 1
              /\ \A i \in 1..Len(PerfData.errors) : PerfData.errors[i] = CallAttempts[i].answer

\* a call answered 200 at its second attempt, after a 503
C12_Witness ==
    /\ req.active /\ req.response.status_code = 200
    /\ PerfData.attempts = 2 /\ PerfData.errors = <<"HTTP 503">>
    /\ Len(CallAttempts) = 2

\* C13: in make_request_with_retry every attempt after the first of a call is
\* issued right after a 500 ms wait, whether the attempt before it failed with
\* a non-200 status or with an exception.
C13_WaitsBeforeEveryRetry ==
    [][(req.active /\ req'.active /\ req.attempt >= 1 /\ req'.attempt = req.attempt + 1)
          => wire[Len(wire)].op = "sleep 500ms"]_vars

\* C14: test_connection_advanced does not raise and returns exactly `retries`
\* attempt records, in order, numbered 1..retries; a record is a success
\* exactly when its connect succeeded, and a connect that raised is recorded
\* as a failed attempt carrying the error text.
C14_OneRecordPerConnect ==
    pc \in {"b_connect", "s_connect"} =>
        LET made == Connects(NodeOf(pc))
        IN  /\ Len(attempts) = Len(made)
            /\ Len(attempts) <= args.retries
            /\ ConnectionLoopDone => Len(attempts) = args.retries
            /\ \A i \in 1..Len(attempts) :
                  /\ attempts[i].attempt = i
                  /\ attempts[i].success <=> made[i].answer = "connected"
                  /\ made[i].answer = "raised" =>
                        ~attempts[i].success /\ attempts[i].error = "str(e)"
                  /\ made[i].answer # "raised" => attempts[i].error = None

\* the list returned after a connect that raised and one that succeeded
C14_Witness ==
    /\ pc = "s_connect" /\ ConnectionLoopDone
    /\ Len(attempts) = 2
    /\ attempts[1].error = "str(e)" /\ ~attempts[1].success
    /\ attempts[2].success

BeaconChecks == {"GET /eth/v1/node/health", "GET /eth/v1/node/syncing",
                 "GET /eth/v1/node/peers", "GET /eth/v1/node/version"}

SepoliaChecks == {"POST eth_chainId", "POST eth_blockNumber", "POST eth_syncing",
                  "POST net_peerCount"}

\* C15: for a reachable node a check that got no 200 within its retries fails
\* that check alone: a reachable beacon is always asked for health, syncing,
\* peers and version, a reachable execution node always for eth_chainId,
\* eth_blockNumber, eth_syncing and net_peerCount.
C15_ExhaustedCheckFailsAlone ==
    pc \in {"summary", "main", "exited"} =>
        /\ Flag(beacon_results, "reachable") =>
              \A op \in BeaconChecks : AttemptsOf(op) # <<>>
        /\ Flag(sepolia_results, "reachable") =>
              \A op \in SepoliaChecks : AttemptsOf(op) # <<>>

\* a run in which the first check of each node got no response
C15_Witness ==
    /\ pc = "exited"
    /\ EndedWithNoResponse("GET /eth/v1/node/health")
    /\ EndedWithNoResponse("POST eth_chainId")
    /\ AttemptsOf("GET /eth/v1/node/version") # <<>>
    /\ AttemptsOf("POST net_peerCount") # <<>>

\* the shape each check expects of a 200 body
HasShape(body, key, types) ==
    /\ body.type = "dict"
    /\ key \in DOMAIN body.items
    /\ body.items[key].type \in types

ExpectedShape(op, body) ==
    CASE op = "GET /eth/v1/node/syncing" ->
            HasShape(body, "data", {"dict"}) /\ HasShape(body.items["data"], "is_syncing", {"bool"})
      [] op = "GET /eth/v1/node/peers" -> HasShape(body, "data", {"list"})
      [] op = "GET /eth/v1/node/version" ->
            HasShape(body, "data", {"dict"}) /\ HasShape(body.items["data"], "version", {"text"})
      [] op \in {"POST eth_chainId", "POST eth_blockNumber", "POST net_peerCount"} ->
            HasShape(body, "result", {"str"}) /\ body.items["result"].digits # <<>>
      [] op = "POST eth_syncing" -> HasShape(body, "result", {"bool", "dict"})

\* the field of the node's dict each check fills, and its initial value
AtDefault(op) ==
    CASE op = "GET /eth/v1/node/syncing" -> beacon_results.synced = FALSE
      [] op = "GET /eth/v1/node/peers" -> beacon_results.peers = 0
      [] op = "GET /eth/v1/node/version" -> beacon_results.version = "Unknown"
      [] op = "POST eth_chainId" -> sepolia_results.chain_id = 0
      [] op = "POST eth_blockNumber" -> sepolia_results.latest_block = 0
      [] op = "POST eth_syncing" -> sepolia_results.synced = FALSE
      [] op = "POST net_peerCount" -> sepolia_results.peers = 0

MalformedAnswer(op) ==
    /\ AttemptsOf(op) # <<>>
    /\ AttemptsOf(op)[Len(AttemptsOf(op))].answer = "200"
    /\ ~ExpectedShape(op, AttemptsOf(op)[Len(AttemptsOf(op))].body)

\* C16: a 200 whose body cannot be parsed or has not the expected shape leaves
\* the field of its check at the initial default (synced false, peers 0,
\* chain_id 0, latest_block 0, version "Unknown") and does not end the node's
\* check: the remaining checks of the node are still made.
C16_MalformedBodyKeepsDefault ==
    pc \in {"summary", "main", "exited"} =>
        \A op \in (BeaconChecks \cup SepoliaChecks) \ {"GET /eth/v1/node/health"} :
            MalformedAnswer(op) =>
                /\ AtDefault(op)
                /\ \A later \in (IF op \in BeaconChecks THEN BeaconChecks ELSE SepoliaChecks) :
                      AttemptsOf(later) # <<>>

\* C18: a node check returns its dict and does not raise, for every value of
\* --retries the command line accepts, 0 included, and every outcome of the
\* connects and of the HTTP attempts.
C18_NodeChecksNeverRaise == pc # "crashed"

\* the place of a connect or request in the fixed order of a run
Rank(e) ==
    CASE e.op = "connect" -> IF e.node = "beacon" THEN 0 ELSE 5
      [] e.op = "GET /eth/v1/node/health" -> 1
      [] e.op = "GET /eth/v1/node/syncing" -> 2
      [] e.op = "GET /eth/v1/node/peers" -> 3
      [] e.op = "GET /eth/v1/node/version" -> 4
      [] e.op = "POST eth_chainId" -> 6
      [] e.op = "POST eth_blockNumber" -> 7
      [] e.op = "POST eth_getBlockByNumber" -> 8
      [] e.op = "POST eth_syncing" -> 9
      [] e.op = "POST net_peerCount" -> 10

Sent == SelectSeq(wire, LAMBDA e : e.op # "sleep 500ms")

\* the failed attempts in a row, of one request, that end at place i
RECURSIVE FailedRun(_, _, _)
FailedRun(s, i, op) ==
    IF i = 0 THEN 0
    ELSE IF s[i].op = op /\ s[i].answer # "200" THEN 1 + FailedRun(s, i - 1, op)
    ELSE 0

\* the loop that made the connect or attempt at place i was over after it
LoopEnded(s, i) ==
    IF s[i].op = "connect" THEN Len(Connects(s[i].node)) = args.retries
    ELSE s[i].answer = "200" \/ FailedRun(s, i, s[i].op) % args.retries = 0

\* C19: connects and requests go out in one fixed order: everything for the
\* beacon before anything for the execution node; for the beacon the TCP
\* probes, health, syncing, peers, version; for the execution node the TCP
\* probes, eth_chainId, eth_blockNumber, the eth_getBlockByNumber calls,
\* eth_syncing, net_peerCount; and nothing of a later check goes out before
\* the retry loop of the check before it has ended.
C19_FixedOrder ==
    \A i \in 1..(Len(Sent) - 1) :
        /\ Rank(Sent[i]) <= Rank(Sent[i + 1])
        /\ Rank(Sent[i]) < Rank(Sent[i + 1]) => LoopEnded(Sent, i)
        /\ Sent[i].node = "sepolia" => Sent[i + 1].node = "sepolia"

\* a run over both nodes, with block fetches and a retried beacon peers request
C19_Witness ==
    /\ pc = "exited"
    /\ Reachable("beacon") /\ Reachable("sepolia")
    /\ Len(AttemptsOf("GET /eth/v1/node/peers")) = 2
    /\ Len(AttemptsOf("POST eth_getBlockByNumber")) >= 2
    /\ AttemptsOf("POST net_peerCount") # <<>>

\* C20: a single run with retries >= 1 ends with an exit code, whatever the
\* network answers, after at most 2 * retries TCP connects and at most
\* 13 * retries HTTP attempts (four beacon checks, four execution checks and
\* at most five block fetches, each of at most `retries` attempts).
C20_TerminatesWithinBounds ==
    /\ [](/\ Len(Connects("beacon")) + Len(Connects("sepolia")) <= 2 * args.retries
          /\ Len(HttpAttempts("beacon")) <= 4 * args.retries
          /\ Len(HttpAttempts("sepolia")) <= 9 * args.retries)
    /\ (args.retries >= 1 => <>(pc = "exited" /\ exit_code \in {<<0>>, <<1>>}))

\* a run that ended after all the connects and all the attempts the bound allows
C20_Witness ==
    /\ pc = "exited" /\ args.retries >= 1
    /\ Len(Connects("beacon")) + Len(Connects("sepolia")) = 2 * args.retries
    /\ Len(HttpAttempts("beacon")) + Len(HttpAttempts("sepolia")) = 13 * args.retries

(***************************************************************************)
(*                        Properties of monitor mode                       *)
(***************************************************************************)
\* the key under which a check files its perf_data
PerfKey(op) ==
    CASE op = "GET /eth/v1/node/health" -> "health_check"
      [] op \in {"GET /eth/v1/node/syncing", "POST eth_syncing"} -> "sync_check"
      [] op \in {"GET /eth/v1/node/peers", "POST net_peerCount"} -> "peer_check"
      [] op = "POST eth_chainId" -> "chain_id_check"
      [] op = "POST eth_blockNumber" -> "block_number_check"

\* C17: in monitor mode every iteration after the first starts as the first
\* did, on empty result records and with no local of the earlier call alive:
\* no field, issue or performance entry of an earlier iteration is in the
\* state a later iteration runs from, and what a later iteration hands to the
\* summary holds performance entries of its own checks only and, when every
\* connect and answer of the iteration was a healthy node's, no issue.
C17_IterationsStartFresh ==
    /\ (iteration >= 1 /\ pc = "beacon") =>
          /\ beacon_results = EmptyDict /\ sepolia_results = EmptyDict
          /\ attempts = <<>> /\ req = NoRequest /\ blk = NoBlocks
          /\ summary = NoSummary
    /\ (iteration >= 1 /\ pc \in {"summary", "main"}) =>
          /\ args.beacon = "" => beacon_results = EmptyDict
          /\ args.sepolia = "" => sepolia_results = EmptyDict
          /\ \A op \in BeaconChecks \ {"GET /eth/v1/node/version"} :
                PerfKey(op) \in DOMAIN Get(beacon_results, "performance", EmptyDict)
                   => AttemptsOf(op) # <<>>
          /\ \A op \in SepoliaChecks :
                PerfKey(op) \in DOMAIN Get(sepolia_results, "performance", EmptyDict)
                   => AttemptsOf(op) # <<>>
          /\ faults = 0 => /\ Get(beacon_results, "issues", <<>>) = <<>>
                           /\ Get(sepolia_results, "issues", <<>>) = <<>>

\* a later iteration that found the beacon healthy and without issues
C17_Witness ==
    /\ iteration >= 1 /\ pc = "main"
    /\ Flag(beacon_results, "reachable") /\ Flag(beacon_results, "healthy")
    /\ beacon_results.issues = <<>>
    /\ args.sepolia = ""

(***************************************************************************)
(*                     Properties of the result records                    *)
(***************************************************************************)
\* the two dicts, while their checks build them and once they are returned
NodeResults == {beacon_results, sepolia_results}

\* a dict that a node check has made (run_health_check's own {} is not one)
Checked(results) == "reachable" \in DOMAIN results

ReachableFirst(results) ==
    (Flag(results, "healthy") \/ Flag(results, "synced") \/ Get(results, "peers", 0) > 0)
        => Flag(results, "reachable")

\* C21 as stated: healthy, synced and peers > 0 each imply reachable, and a
\* record with reachable = false has healthy and synced false or absent, a
\* peers field that is 0 and a performance record that is empty (an absent
\* performance record reads as {} everywhere it is read).
C21_Original ==
    \A results \in NodeResults :
        /\ ReachableFirst(results)
        /\ (Checked(results) /\ ~results.reachable) =>
              /\ ~Flag(results, "healthy") /\ ~Flag(results, "synced")
              /\ "peers" \in DOMAIN results /\ results.peers = 0
              /\ Get(results, "performance", EmptyDict) = EmptyDict

\* C21 amended: at every point of a node check and in the dict it returns,
\* healthy, synced and peers > 0 each imply reachable; a record with
\* reachable = false has healthy and synced false or absent and an empty or
\* absent performance record, and its peers field is 0 when the URL was
\* parsed and absent when it was not, in which case the summary shows "N/A".
C21_ReachableComesFirst ==
    /\ \A results \in NodeResults :
          /\ ReachableFirst(results)
          /\ (Checked(results) /\ ~results.reachable) =>
                /\ ~Flag(results, "healthy") /\ ~Flag(results, "synced")
                /\ Get(results, "performance", EmptyDict) = EmptyDict
                /\ IF results.issues = <<"Invalid URL format">>
                   THEN "peers" \notin DOMAIN results
                   ELSE "peers" \in DOMAIN results /\ results.peers = 0
    /\ pc \in {"main", "exited"} =>
          /\ (Checked(beacon_results) /\ "peers" \notin DOMAIN beacon_results)
                => summary.beacon_peers = "N/A"
          /\ (Checked(sepolia_results) /\ "peers" \notin DOMAIN sepolia_results)
                => summary.sepolia_peers = "N/A"

\* a run that ended with a healthy, synced beacon that has peers, and an
\* execution node no connect reached
C21_Witness ==
    /\ pc = "exited"
    /\ Flag(beacon_results, "reachable") /\ Flag(beacon_results, "healthy")
    /\ Flag(beacon_results, "synced") /\ beacon_results.peers > 0
    /\ Checked(sepolia_results) /\ ~sepolia_results.reachable
    /\ Connects("sepolia") # <<>>
    /\ sepolia_results.peers = 0 /\ sepolia_results.performance = EmptyDict

\* the severities logged for the connection test of a node in this call
Severity(line) ==
    {status \in {"success", "warning", "error", "critical"} : Log(line, status) \in log}

Agrees(results, verdict) ==
    /\ results.reachable <=> verdict.status \in {"success", "warning"}
    /\ ~results.reachable <=> verdict.status \in {"error", "critical"}
    /\ ~results.reachable => results.issues = verdict.details

Returned(results, line) ==
    /\ Flag(results, "reachable") <=> (Severity(line) \in {{"success"}, {"warning"}})
    /\ ~Flag(results, "reachable") <=> (Severity(line) \in {{"error"}, {"critical"}})
    /\ Severity(line) = {"error"} => results.issues = RefusedLines
    /\ Severity(line) = {"critical"} => results.issues \in {TimeoutLines, OverloadLines}

\* C22: for every non-empty sequence of connect attempts the node's reachable
\* flag agrees with the classifier's verdict on that sequence: reachable is
\* true exactly when the severity is "success" or "warning" and false exactly
\* when it is "error" or "critical", and then the issues of the record are
\* exactly the classifier's explanation lines, at the step that classifies
\* and in the record the check returns.
C22_ReachableAgreesWithClassifier ==
    /\ [][(pc = "b_connect" /\ pc' # "b_connect" /\ attempts # <<>>) =>
             Agrees(beacon_results', diagnose_connection_issues(args.timeout, attempts))]_vars
    /\ [][(pc = "s_connect" /\ pc' # "s_connect" /\ attempts # <<>>) =>
             Agrees(sepolia_results', diagnose_connection_issues(args.timeout, attempts))]_vars
    /\ [](pc \in {"summary", "main", "exited"} =>
             /\ Connects("beacon") # <<>> => Returned(beacon_results, "Connection test complete")
             /\ Connects("sepolia") # <<>> =>
                   Returned(sepolia_results, "RPC connection test complete"))

\* a run that ended with a beacon classified critical and unreachable and an
\* execution node classified warning and reachable
C22_Witness ==
    /\ pc = "exited"
    /\ Connects("beacon") # <<>> /\ Connects("sepolia") # <<>>
    /\ Severity("Connection test complete") = {"critical"}
    /\ ~beacon_results.reachable /\ beacon_results.issues = TimeoutLines
    /\ Severity("RPC connection test complete") = {"warning"}
    /\ sepolia_results.reachable

(***************************************************************************)
(*                  Properties of a run over one node only                 *)
(***************************************************************************)
\* nothing was sent to the node and its dict is run_health_check's own {}
Unprobed(node, results) ==
    /\ Connects(node) = <<>> /\ HttpAttempts(node) = <<>>
    /\ results = EmptyDict

\* C23: a node whose URL is given as "" is never probed and its result stays
\* the empty dict; the summary's overall flag is then false and the single
\* run exits with 1, whatever the checks of the other node found.
C23_EmptyUrlFailsTheRun ==
    /\ args.beacon = "" => Unprobed("beacon", beacon_results)
    /\ args.sepolia = "" => Unprobed("sepolia", sepolia_results)
    /\ (args.beacon = "" \/ args.sepolia = "") =>
          /\ pc \in {"main", "exited"} => ~summary.all_healthy
          /\ pc = "exited" => exit_code = <<1>>

\* a run over the beacon only that found it reachable, healthy, synced and
\* without issues, and exited with 1
C23_Witness ==
    /\ pc = "exited" /\ args.sepolia = "" /\ args.beacon # ""
    /\ Flag(beacon_results, "reachable") /\ Flag(beacon_results, "healthy")
    /\ Flag(beacon_results, "synced") /\ beacon_results.issues = <<>>
    /\ summary.beacon_line = "Beacon Chain: OPTIMAL (healthy & synced)"
    /\ sepolia_results = EmptyDict
    /\ exit_code = <<1>>

(***************************************************************************)
(*                     How monitor mode comes to an end                    *)
(***************************************************************************)
\* C24: in monitor mode the process does not end on its own and never exits
\* with code 1: it ends only by the user's interrupt, and then with code 0,
\* whatever the iterations found.
C24_MonitorEndsOnlyByInterrupt ==
    /\ pc # "crashed"
    /\ exit_code \in {<<>>, <<0>>}
    /\ exit_code = <<0>> <=> pc = "exited"

====
